---- MODULE Spec2Model ----
(***************************************************************************)
(* Model of src/main.py: crop_to_content (bounding-box crop of an RGBA     *)
(* array) and convert_2D_color_array_to_truecolor_string (24-bit           *)
(* TrueColor rendering of an RGBA array), driven by a caller that holds    *)
(* an array and applies the two functions to it.                           *)
(*                                                                         *)
(* An array is a record [shape |-> <<h, w, c>>, data |-> rows], the rows   *)
(* being sequences of pixels and a pixel a sequence of c channel values.   *)
(* A string is a sequence of one-character strings; the escape character   *)
(* (octal 033) is written ESC.                                             *)
(***************************************************************************)
EXTENDS Integers, Sequences, FiniteSets, TLC

VARIABLES color_array, calls

vars == <<color_array, calls>>

\* ---------------------------------------------------------------- bounds
MaxPixels == 6
MaxCalls == 2

\* ------------------------------------------------------- input alphabet
ColorA == <<10, 20, 30>>
ColorB == <<255, 0, 7>>
Colors == {ColorA, ColorB}
\* two visible pixels of different colour and alpha, one invisible pixel
\* that carries a colour
Pixels == {ColorA \o <<255>>, ColorB \o <<1>>, ColorB \o <<0>>}
ChannelCounts == {3, 4}

PixelsOf(c) == IF c = 4 THEN Pixels ELSE Colors

Shapes == {s \in (0..MaxPixels) \X (0..MaxPixels) \X ChannelCounts :
             s[1] * s[2] <= MaxPixels}

ArraysOf(s) == {[shape |-> s, data |-> d] :
                  d \in [1..s[1] -> [1..s[2] -> PixelsOf(s[3])]]}

Arrays == UNION {ArraysOf(s) : s \in Shapes}

\* ------------------------------------------------------------- strings
ESC == "ESC"
Digits == <<"0", "1", "2", "3", "4", "5", "6", "7", "8", "9">>

RECURSIVE Str(_)
\* Python's decimal formatting of a non-negative integer in an f-string
Str(n) == IF n < 10 THEN <<Digits[n + 1]>>
                    ELSE Str(n \div 10) \o <<Digits[(n % 10) + 1]>>

RECURSIVE Join(_)
\* "".join(list)
Join(list) == IF list = <<>> THEN <<>> ELSE Head(list) \o Join(Tail(list))

\* ------------------------------------------------------ ANSI codes
set_as_background == 48
set_as_foreground == 38

get_ansi_color_code(r, g, b, background) ==
    LET mode == IF background THEN set_as_background ELSE set_as_foreground
    IN  <<ESC, "[">> \o Str(mode) \o <<";", "2", ";">> \o Str(r) \o <<";">>
        \o Str(g) \o <<";">> \o Str(b) \o <<"m">>

get_ansi_reset_style_code == <<ESC, "[", "0", "m">>

\* ------------------------------------------------------ results
Return(v) == [tag |-> "return", value |-> v]
Raise(e) == [tag |-> "raise", exc |-> e]

\* ------------------------------------------------------ crop_to_content
\* alpha_channel != 0 at row i, column j
AlphaNonZero(a, i, j) == a.data[i][j][4] # 0

\* variant: np.all in place of np.any along the rows
AllAxis1(a) == [i \in 1..a.shape[1] |-> \A j \in 1..a.shape[2] : AlphaNonZero(a, i, j)]

\* np.any(alpha_channel != 0, axis=1): one boolean per row
AnyAxis1(a) == [i \in 1..a.shape[1] |-> \E j \in 1..a.shape[2] : AlphaNonZero(a, i, j)]

\* np.any(alpha_channel != 0, axis=0): one boolean per column
AnyAxis0(a) == [j \in 1..a.shape[2] |-> \E i \in 1..a.shape[1] : AlphaNonZero(a, i, j)]

RECURSIVE WhereFrom(_, _)
WhereFrom(mask, k) == IF k > Len(mask) THEN <<>>
                      ELSE (IF mask[k] THEN <<k - 1>> ELSE <<>>) \o WhereFrom(mask, k + 1)

\* variant: indices reported one too high
WhereOneBased(mask) == [k \in 1..Len(WhereFrom(mask, 1)) |-> WhereFrom(mask, 1)[k] + 1]

\* np.where(mask)[0]: the 0-based indices of the true entries, ascending
Where(mask) == WhereFrom(mask, 1)

\* variant: the stops taken one past the exclusive stop
SliceStopPlusOne(a, start, stop, cstart, cstop) ==
    LET hi  == IF stop + 1 > a.shape[1] THEN a.shape[1] ELSE stop + 1
        chi == IF cstop + 1 > a.shape[2] THEN a.shape[2] ELSE cstop + 1
        h   == IF hi - start > 0 THEN hi - start ELSE 0
        w   == IF chi - cstart > 0 THEN chi - cstart ELSE 0
    IN  [shape |-> <<h, w, a.shape[3]>>,
         data  |-> [i \in 1..h |-> [j \in 1..w |-> a.data[start + i][cstart + j]]]]

\* a[start : stop, cstart : cstop]: 0-based indices, exclusive stops that
\* Python clamps to the array's extent
Slice(a, start, stop, cstart, cstop) ==
    LET hi  == IF stop > a.shape[1] THEN a.shape[1] ELSE stop
        chi == IF cstop > a.shape[2] THEN a.shape[2] ELSE cstop
        h   == IF hi - start > 0 THEN hi - start ELSE 0
        w   == IF chi - cstart > 0 THEN chi - cstart ELSE 0
    IN  [shape |-> <<h, w, a.shape[3]>>,
         data  |-> [i \in 1..h |-> [j \in 1..w |-> a.data[start + i][cstart + j]]]]

crop_to_content(a) ==
    IF a.shape[3] # 4 THEN Raise("ValueError")
    ELSE LET rows == AnyAxis1(a)
             cols == AnyAxis0(a)
             ri   == Where(rows)
             ci   == Where(cols)
         IN  \* indexing an empty index array with [0, -1] raises IndexError
             IF ri = <<>> THEN Raise("IndexError")
             ELSE IF ci = <<>> THEN Raise("IndexError")
             ELSE LET row_start == ri[1]
                      row_end   == ri[Len(ri)]
                      col_start == ci[1]
                      col_end   == ci[Len(ci)]
                  IN  Return(Slice(a, row_start, row_end + 1, col_start, col_end + 1))

\* --------------------------- convert_2D_color_array_to_truecolor_string
visible_pixel_char == <<" ", " ">>
invisible_pixel_char == <<" ", " ">>

\* variant: the alpha test dropped, every pixel is coloured
next_char_ignoring_alpha(pixel) ==
    get_ansi_color_code(pixel[1], pixel[2], pixel[3], TRUE) \o visible_pixel_char
    \o get_ansi_reset_style_code

\* the substring appended for one pixel
next_char(pixel) ==
    LET r == pixel[1]
        g == pixel[2]
        b == pixel[3]
        a == pixel[4]
    IN  IF a # 0
        THEN get_ansi_color_code(r, g, b, TRUE) \o visible_pixel_char
             \o get_ansi_reset_style_code
        ELSE invisible_pixel_char

\* variant: the newline after the row forgotten
RowItemsNoNewline(row) == [j \in 1..Len(row) |-> next_char(row[j])]

RECURSIVE RunLengthFrom(_, _, _)
RunLengthFrom(row, j, last) ==
    IF j > Len(row) THEN <<>>
    ELSE LET rgb == SubSeq(row[j], 1, 3)
         IN  IF row[j][4] = 0
             THEN <<invisible_pixel_char>> \o RunLengthFrom(row, j + 1, last)
             ELSE IF <<rgb>> = last
             THEN <<visible_pixel_char>> \o RunLengthFrom(row, j + 1, last)
             ELSE <<get_ansi_color_code(rgb[1], rgb[2], rgb[3], TRUE) \o visible_pixel_char>>
                  \o RunLengthFrom(row, j + 1, <<rgb>>)

\* variant: a colour code only when the colour differs from the last one
\* emitted in the row, no reset after a pixel
RowItemsRunLength(row) == RunLengthFrom(row, 1, <<>>) \o << <<"\n">> >>

\* the inner loop over one row, then the newline
RowItems(row) == [j \in 1..Len(row) |-> next_char(row[j])] \o << <<"\n">> >>

RECURSIVE RowsItems(_)
RowsItems(rows) == IF rows = <<>> THEN <<>>
                   ELSE RowItems(Head(rows)) \o RowsItems(Tail(rows))

\* variant: an early return of the empty string for an array without rows
convert_empty_returns_empty(a) ==
    IF a.shape[3] # 4 THEN Raise("ValueError")
    ELSE IF a.shape[1] = 0 THEN Return(<<>>)
    ELSE Return(Join(RowsItems(a.data)
                     \o [k \in 1..Len(get_ansi_reset_style_code) |->
                            <<get_ansi_reset_style_code[k]>>]))

convert_2D_color_array_to_truecolor_string(a) ==
    IF a.shape[3] # 4 THEN Raise("ValueError")
    ELSE LET string_representation ==
                 RowsItems(a.data)
                 \o [k \in 1..Len(get_ansi_reset_style_code) |->
                        <<get_ansi_reset_style_code[k]>>]
         IN  Return(Join(string_representation))

\* ---------------------------------------------------------------- caller
Init == /\ color_array \in Arrays
        /\ calls = <<>>

\* cropped_image_array = crop_to_content(image_array); the caller goes on
\* with the cropped array when the call returns
Crop ==
    /\ Len(calls) < MaxCalls
    /\ LET ret == crop_to_content(color_array)
       IN  /\ calls' = Append(calls, [fn |-> "crop", arg |-> color_array, ret |-> ret])
           /\ color_array' = IF ret.tag = "return" THEN ret.value ELSE color_array

\* colored_string = convert_2D_color_array_to_truecolor_string(array)
Convert ==
    /\ Len(calls) < MaxCalls
    /\ LET ret == convert_2D_color_array_to_truecolor_string(color_array)
       IN  /\ calls' = Append(calls, [fn |-> "convert", arg |-> color_array, ret |-> ret])
           /\ UNCHANGED color_array

Next == Crop \/ Convert

Spec == Init /\ [][Next]_vars

\* ----------------------------------------------------------------------
\* Properties.  They look at the recorded calls only, and read the output
\* as a flat character sequence.
\* ----------------------------------------------------------------------
\* the call made last, on an array of four channels
Last == calls[Len(calls)]
Cropped == Len(calls) > 0 /\ Last.fn = "crop" /\ Last.arg.shape[3] = 4
Converted == Len(calls) > 0 /\ Last.fn = "convert" /\ Last.arg.shape[3] = 4
\* the call before it
Before == calls[Len(calls) - 1]
CroppedTwice == /\ Len(calls) > 1
                /\ Before.fn = "crop" /\ Before.arg.shape[3] = 4
                /\ Last.fn = "crop" /\ Last.arg.shape[3] = 4

Height(g) == g.shape[1]
Width(g) == g.shape[2]
VisibleAt(g, i, j) == g.data[i][j][4] # 0
RowHasVisible(g, i) == \E j \in 1..Width(g) : VisibleAt(g, i, j)
ColHasVisible(g, j) == \E i \in 1..Height(g) : VisibleAt(g, i, j)
HasVisible(g) == \E i \in 1..Height(g) : RowHasVisible(g, i)
AllVisible(g) == \A i \in 1..Height(g) : \A j \in 1..Width(g) : VisibleAt(g, i, j)
VisibleInRow(g, i) == Cardinality({j \in 1..Width(g) : VisibleAt(g, i, j)})
VisibleCount(g) == Cardinality({ij \in (1..Height(g)) \X (1..Width(g)) : VisibleAt(g, ij[1], ij[2])})
Rgb(g, i, j) == <<g.data[i][j][1], g.data[i][j][2], g.data[i][j][3]>>
\* number of maximal runs of equal colour in row i
RunsInRow(g, i) == Cardinality({j \in 1..Width(g) : j = 1 \/ Rgb(g, i, j) # Rgb(g, i, j - 1)})

MinOf(S) == CHOOSE x \in S : \A y \in S : x <= y
MaxOf(S) == CHOOSE x \in S : \A y \in S : y <= x

ResetLiteral == <<"ESC", "[", "0", "m">>
CodeALiteral == <<"ESC", "[", "4", "8", ";", "2", ";", "1", "0", ";", "2", "0", ";", "3", "0", "m">>
CodeBLiteral == <<"ESC", "[", "4", "8", ";", "2", ";", "2", "5", "5", ";", "0", ";", "7", "m">>
Glyph == <<" ", " ">>

\* ESC [ 38 or 48 ; 2 ;
ColorCodes(s) ==
    Cardinality({i \in 1..(Len(s) - 6) :
        /\ s[i] = "ESC" /\ s[i + 1] = "["
        /\ s[i + 2] \in {"3", "4"} /\ s[i + 3] = "8"
        /\ s[i + 4] = ";" /\ s[i + 5] = "2" /\ s[i + 6] = ";"})
\* ESC [ 0 m
ResetCodes(s) ==
    Cardinality({i \in 1..(Len(s) - 3) :
        s[i] = "ESC" /\ s[i + 1] = "[" /\ s[i + 2] = "0" /\ s[i + 3] = "m"})
ControlCodes(s) == Cardinality({i \in 1..Len(s) : s[i] = "ESC"})
Spaces(s) == Cardinality({i \in 1..Len(s) : s[i] = " "})
NewlineAt(s) == {i \in 1..Len(s) : s[i] = "\n"}
\* position of the k-th newline, 0 for k = 0, past the end when there is none
NthNewline(s, k) ==
    LET nl == NewlineAt(s)
    IN  IF k = 0 THEN 0
        ELSE IF Cardinality(nl) < k THEN Len(s) + 1
        ELSE CHOOSE i \in nl : Cardinality({x \in nl : x < i}) = k - 1
\* the line terminated by the k-th newline, without the newline
Line(s, k) == SubSeq(s, NthNewline(s, k - 1) + 1, NthNewline(s, k) - 1)
EndsWith(s, suf) == Len(s) >= Len(suf) /\ SubSeq(s, Len(s) - Len(suf) + 1, Len(s)) = suf

RECURSIVE Repeat(_, _)
Repeat(s, n) == IF n = 0 THEN <<>> ELSE s \o Repeat(s, n - 1)

\* the characters one pixel stands for when every visible pixel carries its
\* own colour code and reset
Cell(pixel) ==
    IF pixel[4] = 0 THEN Glyph
    ELSE (IF SubSeq(pixel, 1, 3) = <<10, 20, 30>> THEN CodeALiteral ELSE CodeBLiteral)
         \o Glyph \o ResetLiteral
RECURSIVE CellsFrom(_, _)
CellsFrom(row, j) == IF j > Len(row) THEN <<>> ELSE Cell(row[j]) \o CellsFrom(row, j + 1)

\* C1: when every pixel of the array is visible, each output line carries as
\* many colour-control codes as its row has maximal runs of equal colour
\* (a code only where the colour differs from the last one emitted in the row).
C1_CodePerColorRun ==
    (Converted /\ AllVisible(Last.arg)) =>
            /\ Last.ret.tag = "return"
            /\ \A i \in 1..Height(Last.arg) :
                   ColorCodes(Line(Last.ret.value, i)) = RunsInRow(Last.arg, i)

\* C2: for an array with at least one row the output holds the reset code
\* exactly once, as its last token, right after the final row's newline.
C2_SingleTrailingReset ==
    (Converted /\ Height(Last.arg) >= 1) =>
            /\ Last.ret.tag = "return"
            /\ ResetCodes(Last.ret.value) = 1
            /\ EndsWith(Last.ret.value, <<"\n">> \o ResetLiteral)

\* C3: cropping an array with a visible pixel returns exactly the sub-array
\* between the first and last row holding a visible pixel and between the
\* first and last column holding a visible pixel, both taken from the
\* original array, pixels and order unchanged.
C3_CropIsBoundingBox ==
    (Cropped /\ HasVisible(Last.arg)) =>
            LET g  == Last.arg
                rs == MinOf({i \in 1..Height(g) : RowHasVisible(g, i)})
                re == MaxOf({i \in 1..Height(g) : RowHasVisible(g, i)})
                cs == MinOf({j \in 1..Width(g) : ColHasVisible(g, j)})
                ce == MaxOf({j \in 1..Width(g) : ColHasVisible(g, j)})
            IN  /\ Last.ret.tag = "return"
                /\ Last.ret.value.shape = <<re - rs + 1, ce - cs + 1, 4>>
                /\ Last.ret.value.data =
                       [i \in 1..(re - rs + 1) |->
                           [j \in 1..(ce - cs + 1) |-> g.data[rs + i - 1][cs + j - 1]]]
C3_Witness ==
    Cropped /\
        /\ HasVisible(Last.arg)
        /\ Last.ret.tag = "return"
        /\ Height(Last.ret.value) = Height(Last.arg)
        /\ Width(Last.ret.value) < Width(Last.arg)
        /\ Height(Last.ret.value) >= 2
        /\ ~ AllVisible(Last.ret.value)

\* C4: cropping an array without any visible pixel (an array without rows
\* included) fails with the dedicated error EmptyContentError.
C4_EmptyContentError ==
    (Cropped /\ ~ HasVisible(Last.arg)) =>
        Last.ret = [tag |-> "raise", exc |-> "EmptyContentError"]
\* what holds of C4: the call never returns an array for such an input
C4_NeverReturns ==
    (Cropped /\ ~ HasVisible(Last.arg)) => Last.ret.tag = "raise"

\* C5 as stated: converting an array without rows returns the empty string.
C5_EmptyArrayEmptyString ==
    (Converted /\ Height(Last.arg) = 0) =>
        Last.ret = [tag |-> "return", value |-> <<>>]
\* C5 amended: converting an array without rows does not fail and returns
\* exactly the reset code ESC[0m, four characters and nothing else.
C5_EmptyArrayResetOnly ==
    (Converted /\ Height(Last.arg) = 0) =>
        Last.ret = [tag |-> "return", value |-> ResetLiteral]
C5_Witness ==
    Converted /\
        /\ Height(Last.arg) = 0
        /\ Width(Last.arg) > 0
        /\ Last.ret.tag = "return"

\* C6: cropping is idempotent: cropping the result of cropping an array
\* with a visible pixel succeeds and returns that same result.
C6_CropIdempotent ==
    (CroppedTwice /\ HasVisible(Before.arg)) =>
        /\ Before.ret.tag = "return"
        /\ Last.arg = Before.ret.value
        /\ Last.ret = Before.ret
C6_Witness ==
    /\ CroppedTwice
    /\ HasVisible(Before.arg)
    /\ Before.ret.tag = "return"
    /\ Before.ret.value # Before.arg
    /\ ~ AllVisible(Before.ret.value)
    /\ Last.ret.tag = "return"

\* C7: the result of cropping an array with a visible pixel has a visible
\* pixel in its first row, last row, first column and last column, has at
\* least one row and one column, and is no larger than the array.
C7_BordersVisible ==
    (Cropped /\ HasVisible(Last.arg)) =>
            /\ Last.ret.tag = "return"
            /\ LET t == Last.ret.value
               IN  /\ Height(t) >= 1 /\ Width(t) >= 1
                   /\ Height(t) <= Height(Last.arg)
                   /\ Width(t) <= Width(Last.arg)
                   /\ RowHasVisible(t, 1) /\ RowHasVisible(t, Height(t))
                   /\ ColHasVisible(t, 1) /\ ColHasVisible(t, Width(t))
C7_Witness ==
    Cropped /\
        /\ HasVisible(Last.arg)
        /\ Last.ret.tag = "return"
        /\ Height(Last.ret.value) >= 2
        /\ Height(Last.ret.value) < Height(Last.arg)
        /\ ~ AllVisible(Last.ret.value)

\* C8: a pixel with alpha 0 contributes the two-space glyph and no control
\* code, whatever its colour: each line holds two spaces per pixel and two
\* control codes per visible pixel and nothing else, and an array whose
\* pixels all have alpha 0 gives h lines of w glyphs, then the reset code.
C8_InvisibleGlyphOnly ==
    Converted =>
        LET g == Last.arg
        IN  /\ Last.ret.tag = "return"
            /\ \A i \in 1..Height(g) :
                   /\ Spaces(Line(Last.ret.value, i)) = 2 * Width(g)
                   /\ ControlCodes(Line(Last.ret.value, i)) = 2 * VisibleInRow(g, i)
                   /\ VisibleInRow(g, i) = 0 => Line(Last.ret.value, i) = Repeat(Glyph, Width(g))
            /\ ~ HasVisible(g) =>
                   /\ Last.ret.value =
                          Repeat(Repeat(Glyph, Width(g)) \o <<"\n">>, Height(g)) \o ResetLiteral
                   /\ ColorCodes(Last.ret.value) = 0
C8_Witness ==
    Converted /\
        LET g == Last.arg
        IN  /\ Height(g) >= 2 /\ Width(g) >= 2
            /\ ~ HasVisible(g)
            /\ \E i \in 1..Height(g) : \E j \in 1..Width(g) : Rgb(g, i, j) = <<255, 0, 7>>
            /\ Last.ret.tag = "return"

\* C9: the output of converting an h by w array holds exactly h newlines,
\* and the line ended by the i-th newline holds exactly w glyphs and the
\* colour codes of the visible pixels of row i.
C9_DimensionPreserved ==
    Converted =>
        LET g == Last.arg
        IN  /\ Last.ret.tag = "return"
            /\ Cardinality(NewlineAt(Last.ret.value)) = Height(g)
            /\ \A i \in 1..Height(g) :
                   /\ Spaces(Line(Last.ret.value, i)) = 2 * Width(g)
                   /\ ColorCodes(Line(Last.ret.value, i)) = VisibleInRow(g, i)
C9_Witness ==
    Converted /\
        LET g == Last.arg
        IN  /\ Height(g) >= 2 /\ Width(g) >= 2
            /\ VisibleInRow(g, 1) # VisibleInRow(g, 2)
            /\ HasVisible(g) /\ ~ AllVisible(g)
            /\ Last.ret.tag = "return"

\* C10: every visible pixel emits its own background colour code
\* ESC[48;2;r;g;bm, the glyph and a reset code, whatever precedes it, so the
\* output holds v colour codes and v + 1 reset codes for v visible pixels.
C10_CodePerVisiblePixel ==
    Converted =>
        LET g == Last.arg
        IN  /\ Last.ret.tag = "return"
            /\ ColorCodes(Last.ret.value) = VisibleCount(g)
            /\ ResetCodes(Last.ret.value) = VisibleCount(g) + 1
            /\ \A i \in 1..Height(g) : Line(Last.ret.value, i) = CellsFrom(g.data[i], 1)
C10_Witness ==
    Converted /\
        LET g == Last.arg
        IN  /\ Width(g) >= 3
            /\ \E i \in 1..Height(g) : \E j \in 2..Width(g) :
                   /\ VisibleAt(g, i, j) /\ VisibleAt(g, i, j - 1)
                   /\ Rgb(g, i, j) = Rgb(g, i, j - 1)
            /\ Last.ret.tag = "return"
            /\ ColorCodes(Last.ret.value) >= 2

====
